---- MODULE Spec2Model ----
(***************************************************************************)
(* Model of the rba crates arm7tdmi (bit-field primitives, program status  *)
(* register) and cartridge (header parsing).                               *)
(*                                                                         *)
(* An unsigned integer of width NBITS is the set of its set bit positions, *)
(* a subset of 0..NBITS-1; bit 0 is the least significant bit.  Shifts,    *)
(* masks and complements are computed on that set exactly as the machine   *)
(* computes them, for every width up to u128.  Val gives the number.       *)
(***************************************************************************)
EXTENDS Integers, Sequences, FiniteSets

VARIABLES
    build,   \* cargo profile the crate was compiled with: "debug" | "release"
    pc,      \* "idle" before the call, "done" once it returned or panicked
    op,      \* the function that was called
    NBITS,   \* BitIndex::NBITS of Self
    self,    \* the receiver
    BIT,     \* const generic BIT
    START,   \* const generic START
    END,     \* const generic END
    value,   \* the `value` argument of set_bits
    state,   \* the `state` argument of set_bit / From<bool> for CpuState
    raw,     \* Psr::raw of the receiver of a Psr method
    cs,      \* the CpuState argument of From<CpuState> for bool
    bytes,   \* the ROM bytes handed to the cartridge crate, indexed from 0
    log,     \* what log::warn! has written
    ret      \* outcome of the call: Ok(v), Err(e) or Panic(msg)

vars == <<build, pc, op, NBITS, self, BIT, START, END, value, state, raw, cs,
          bytes, log, ret>>

(***************************************************************************)
(* Bounds of the sampled inputs.                                           *)
(***************************************************************************)
\* indices and range ends are taken within EdgeBits of 0 and of NBITS
EdgeBits == 1
\* receivers have arbitrary bits in the low and high WordBits positions
WordBits == 2

(***************************************************************************)
(* Build profiles.                                                         *)
(***************************************************************************)
Builds == {"debug", "release"}

\* debug_assert!/debug_assert_eq! are evaluated
DebugAssertions == build = "debug"

\* arithmetic and shift-amount overflow panics instead of wrapping
OverflowChecks == build = "debug"

Ok(v) == [kind |-> "ok", val |-> v]

Err(e) == [kind |-> "err", err |-> e]

Panic(msg) == [kind |-> "panic", msg |-> msg]

None == [kind |-> "none"]

(***************************************************************************)
(* Unsigned integers of width w.                                           *)
(***************************************************************************)
Widths == {8, 16, 32, 64, 128}

MAX(w) == 0 .. (w - 1)

Zero == {}

One == {0}

\* x << n for n < w: bits shifted out at the top are lost
Shl(w, x, n) == {i + n : i \in x} \cap MAX(w)

\* x >> n for n < w
Shr(w, x, n) == {i - n : i \in {j \in x : j >= n}}

BitAnd(x, y) == x \cap y

BitOr(x, y) == x \cup y

BitNot(w, x) == MAX(w) \ x

\* a shift by n bits of a w-bit integer is an overflow when n >= w
ShiftOverflows(w, n) == OverflowChecks /\ n >= w

\* the amount a wrapping shift uses
ShiftAmount(w, n) == n % w

RECURSIVE Pow2(_)
Pow2(n) == IF n = 0 THEN 1 ELSE 2 * Pow2(n - 1)

RECURSIVE Val(_)
Val(x) == IF x = {} THEN 0
          ELSE LET i == CHOOSE j \in x : TRUE IN Pow2(i) + Val(x \ {i})

(***************************************************************************)
(* impl BitIndex                                                           *)
(***************************************************************************)
bit(w, x, b) ==
    IF DebugAssertions /\ ~(b < w) THEN Panic("assertion failed: BIT < Self::NBITS")
    ELSE IF ShiftOverflows(w, b) THEN Panic("attempt to shift left with overflow")
    ELSE Ok(BitAnd(x, Shl(w, One, ShiftAmount(w, b))) # Zero)

set_bit(w, x, b, st) ==
    IF DebugAssertions /\ ~(b < w) THEN Panic("assertion failed: BIT < Self::NBITS")
    ELSE IF ShiftOverflows(w, b) THEN Panic("attempt to shift left with overflow")
    ELSE LET mask == Shl(w, One, ShiftAmount(w, b))
         IN  IF st THEN Ok(BitOr(x, mask))
             ELSE Ok(BitAnd(x, BitNot(w, mask)))

\* bits without the left shift that clears the bits at END and above
bits_NoLeftShift(w, x, s, e) == Ok(Shr(w, x, s))

bits(w, x, s, e) ==
    IF DebugAssertions /\ ~(s < e) THEN Panic("assertion failed: START < END")
    ELSE IF DebugAssertions /\ ~(e <= w) THEN Panic("assertion failed: END <= Self::NBITS")
    ELSE IF OverflowChecks /\ e > w THEN Panic("attempt to subtract with overflow")
    ELSE LET lsh == w - e
             rsh == lsh + s
         IN  IF ShiftOverflows(w, lsh) THEN Panic("attempt to shift left with overflow")
             ELSE IF ShiftOverflows(w, rsh) THEN Panic("attempt to shift right with overflow")
             ELSE Ok(Shr(w, Shl(w, x, ShiftAmount(w, lsh)), ShiftAmount(w, rsh)))

set_bits(w, x, s, e, v) ==
    IF DebugAssertions /\ ~(s < e) THEN Panic("assertion failed: START < END")
    ELSE IF DebugAssertions /\ ~(e <= w) THEN Panic("assertion failed: END <= Self::NBITS")
    ELSE IF DebugAssertions /\ ShiftOverflows(w, e)
         THEN Panic("attempt to shift right with overflow")
    ELSE IF DebugAssertions /\ Shr(w, v, ShiftAmount(w, e)) # Zero
         THEN Panic("assertion failed: value >> END == 0")
    ELSE LET m == bits(w, MAX(w), s, e)
         IN  IF m.kind = "panic" THEN m
             ELSE IF ShiftOverflows(w, s) THEN Panic("attempt to shift left with overflow")
             ELSE LET mask == Shl(w, m.val, ShiftAmount(w, s))
                  IN  Ok(BitOr(BitAnd(x, BitNot(w, mask)),
                               Shl(w, v, ShiftAmount(w, s))))

(***************************************************************************)
(* Sampled inputs.                                                         *)
(***************************************************************************)
Positions(w) == {p \in 0 .. w : p <= EdgeBits \/ p >= w - EdgeBits \/ p = w \div 2}

Indices(w) == Positions(w) \ {w}

Ranges(w) == {r \in Positions(w) \X Positions(w) : r[1] < r[2]}

SamplePos(w) == {p \in MAX(w) : p < WordBits \/ p >= w - WordBits}

Words(w) == (SUBSET SamplePos(w)) \cup {MAX(w) \ s : s \in SUBSET SamplePos(w)}

Values(w) == {Zero, MAX(w)} \cup {{p} : p \in Indices(w)}
                 \cup {0 .. (p - 1) : p \in Positions(w)}

(***************************************************************************)
(* Calls of the bit-field primitives.                                      *)
(***************************************************************************)
InitBit ==
    /\ build \in Builds
    /\ pc = "idle"
    /\ op = "none"
    /\ NBITS = 8
    /\ self = Zero
    /\ BIT = 0
    /\ START = 0
    /\ END = 1
    /\ value = Zero
    /\ state = FALSE
    /\ raw = Zero
    /\ cs = "Arm"
    /\ bytes = <<>>
    /\ log = <<>>
    /\ ret = None

CallBit ==
    /\ pc = "idle"
    /\ \E w \in Widths : \E x \in Words(w), b \in Indices(w) :
          /\ NBITS' = w /\ self' = x /\ BIT' = b
          /\ ret' = bit(w, x, b)
    /\ op' = "bit" /\ pc' = "done"
    /\ UNCHANGED <<build, START, END, value, state, raw, cs, bytes, log>>

CallSetBit ==
    /\ pc = "idle"
    /\ \E w \in Widths : \E x \in Words(w), b \in Indices(w), st \in BOOLEAN :
          /\ NBITS' = w /\ self' = x /\ BIT' = b /\ state' = st
          /\ ret' = set_bit(w, x, b, st)
    /\ op' = "set_bit" /\ pc' = "done"
    /\ UNCHANGED <<build, START, END, value, raw, cs, bytes, log>>

CallBits ==
    /\ pc = "idle"
    /\ \E w \in Widths : \E x \in Words(w), r \in Ranges(w) :
          /\ NBITS' = w /\ self' = x /\ START' = r[1] /\ END' = r[2]
          /\ ret' = bits(w, x, r[1], r[2])
    /\ op' = "bits" /\ pc' = "done"
    /\ UNCHANGED <<build, BIT, value, state, raw, cs, bytes, log>>

CallSetBits ==
    /\ pc = "idle"
    /\ \E w \in Widths : \E x \in Words(w), r \in Ranges(w), v \in Values(w) :
          /\ NBITS' = w /\ self' = x /\ START' = r[1] /\ END' = r[2] /\ value' = v
          /\ ret' = set_bits(w, x, r[1], r[2], v)
    /\ op' = "set_bits" /\ pc' = "done"
    /\ UNCHANGED <<build, BIT, state, raw, cs, bytes, log>>

\* x.set_bits::<START, END>(x.bits::<START, END>())
CallRoundTrip ==
    /\ pc = "idle"
    /\ \E w \in Widths : \E x \in Words(w), r \in Ranges(w) :
          LET field == bits(w, x, r[1], r[2])
          IN  /\ NBITS' = w /\ self' = x /\ START' = r[1] /\ END' = r[2]
              /\ value' = IF field.kind = "ok" THEN field.val ELSE Zero
              /\ ret' = IF field.kind = "ok"
                        THEN set_bits(w, x, r[1], r[2], field.val)
                        ELSE field
    /\ op' = "round_trip" /\ pc' = "done"
    /\ UNCHANGED <<build, BIT, state, raw, cs, bytes, log>>

NextBit == CallBit \/ CallSetBit \/ CallBits \/ CallSetBits \/ CallRoundTrip

SpecBit == InitBit /\ [][NextBit]_vars

(***************************************************************************)
(* CpuState, CpuMode (IntEnum) and their conversions.                      *)
(***************************************************************************)
CpuStates == {"Arm", "Thumb"}

CpuModes == {"User", "Fiq", "Irq", "Supervisor", "Abort", "Undefined", "System"}

\* CpuState::int_value
CpuStateValue(s) == IF s = "Arm" THEN 0 ELSE 1

\* CpuMode::int_value
CpuModeValue(m) ==
    CASE m = "User"       -> 16
      [] m = "Fiq"        -> 17
      [] m = "Irq"        -> 18
      [] m = "Supervisor" -> 19
      [] m = "Abort"      -> 23
      [] m = "Undefined"  -> 27
      [] m = "System"     -> 31

\* a conversion that falls back to User instead of failing
CpuModeTryFrom_Default(n) ==
    IF \E m \in CpuModes : CpuModeValue(m) = n
    THEN Ok(CHOOSE m \in CpuModes : CpuModeValue(m) = n)
    ELSE Ok("User")

\* CpuMode::try_from(u8): the variant with that discriminant, or the error
\* that carries the rejected value
CpuModeTryFrom(n) ==
    IF \E m \in CpuModes : CpuModeValue(m) = n
    THEN Ok(CHOOSE m \in CpuModes : CpuModeValue(m) = n)
    ELSE Err(n)

\* `as u8` of a wider unsigned integer: the low eight bits, as a number
AsU8(x) == Val(x \cap MAX(8))

\* `as u8` of a bool
BoolAsU8(b) == IF b THEN 1 ELSE 0

\* the two states swapped
CpuStateFromBool_Swapped(st) == IF st THEN "Arm" ELSE "Thumb"

CpuStateFromBool(st) == IF st THEN "Thumb" ELSE "Arm"

BoolFromCpuState(s) ==
    CASE s = "Arm"   -> FALSE
      [] s = "Thumb" -> TRUE

invalid_cpu_mode(mode) == Panic("invalid cpu mode")

(***************************************************************************)
(* impl Psr                                                                *)
(***************************************************************************)
PsrBits == 32

PsrMode(r) ==
    LET field == bits(PsrBits, r, 0, 5)
    IN  IF field.kind = "panic" THEN field
        ELSE LET m == CpuModeTryFrom(AsU8(field.val))
             IN  IF m.kind = "ok" THEN Ok(m.val) ELSE invalid_cpu_mode(m.err)

PsrState(r) ==
    LET b == bit(PsrBits, r, 5)
    IN  IF b.kind = "panic" THEN b ELSE Ok(CpuStateFromBool(b.val))

PsrFiqDisabled(r) == bit(PsrBits, r, 6)

PsrIrqDisabled(r) == bit(PsrBits, r, 7)

PsrOverflow(r) == bit(PsrBits, r, 28)

\* the carry flag read from the overflow bit
PsrCarry_Overflow(r) == bit(PsrBits, r, 28)

PsrCarry(r) == bit(PsrBits, r, 29)

PsrZero(r) == bit(PsrBits, r, 30)

PsrSign(r) == bit(PsrBits, r, 31)

\* sampled raw values: every pattern of bits 0-7 and 28-31, the reserved
\* bits 8-27 all clear or all set
Raws == {lo \cup hi \cup rsv : lo \in SUBSET (0 .. 7), hi \in SUBSET (28 .. 31),
                               rsv \in {{}, 8 .. 27}}

InitPsr == InitBit

\* what a Psr method leaves alone
PsrFrame == UNCHANGED <<build, NBITS, self, BIT, START, END, value, state, cs, bytes, log>>

CallMode ==
    /\ pc = "idle"
    /\ \E r \in Raws : raw' = r /\ ret' = PsrMode(r)
    /\ op' = "mode" /\ pc' = "done"
    /\ PsrFrame

CallState ==
    /\ pc = "idle"
    /\ \E r \in Raws : raw' = r /\ ret' = PsrState(r)
    /\ op' = "state" /\ pc' = "done"
    /\ PsrFrame

CallFiqDisabled ==
    /\ pc = "idle"
    /\ \E r \in Raws : raw' = r /\ ret' = PsrFiqDisabled(r)
    /\ op' = "fiq_disabled" /\ pc' = "done"
    /\ PsrFrame

CallIrqDisabled ==
    /\ pc = "idle"
    /\ \E r \in Raws : raw' = r /\ ret' = PsrIrqDisabled(r)
    /\ op' = "irq_disabled" /\ pc' = "done"
    /\ PsrFrame

CallOverflow ==
    /\ pc = "idle"
    /\ \E r \in Raws : raw' = r /\ ret' = PsrOverflow(r)
    /\ op' = "overflow" /\ pc' = "done"
    /\ PsrFrame

CallCarry ==
    /\ pc = "idle"
    /\ \E r \in Raws : raw' = r /\ ret' = PsrCarry(r)
    /\ op' = "carry" /\ pc' = "done"
    /\ PsrFrame

CallZero ==
    /\ pc = "idle"
    /\ \E r \in Raws : raw' = r /\ ret' = PsrZero(r)
    /\ op' = "zero" /\ pc' = "done"
    /\ PsrFrame

CallSign ==
    /\ pc = "idle"
    /\ \E r \in Raws : raw' = r /\ ret' = PsrSign(r)
    /\ op' = "sign" /\ pc' = "done"
    /\ PsrFrame

\* CpuState::from(state)
CallCpuStateFromBool ==
    /\ pc = "idle"
    /\ \E st \in BOOLEAN : state' = st /\ ret' = Ok(CpuStateFromBool(st))
    /\ op' = "CpuState::from" /\ pc' = "done"
    /\ UNCHANGED <<build, NBITS, self, BIT, START, END, value, raw, cs, bytes, log>>

\* bool::from(cs)
CallBoolFromCpuState ==
    /\ pc = "idle"
    /\ \E s \in CpuStates : cs' = s /\ ret' = Ok(BoolFromCpuState(s))
    /\ op' = "bool::from" /\ pc' = "done"
    /\ UNCHANGED <<build, NBITS, self, BIT, START, END, value, state, raw, bytes, log>>

NextPsr ==
    \/ CallMode \/ CallState \/ CallFiqDisabled \/ CallIrqDisabled
    \/ CallOverflow \/ CallCarry \/ CallZero \/ CallSign
    \/ CallCpuStateFromBool \/ CallBoolFromCpuState

SpecPsr == InitPsr /\ [][NextPsr]_vars

(***************************************************************************)
(* cartridge: header parsing.  A byte slice is a sequence of numbers in    *)
(* 0..255; At and Slice take the offsets of the source, counted from 0.    *)
(***************************************************************************)
CHECKSUM_OFFSET == 189

\* a minimum size that stops at the checksum byte
HEADER_MIN_SIZE_Short == CHECKSUM_OFFSET

HEADER_MIN_SIZE == 192

SOFTWARE_VERSION_OFFSET == 188

\* a Range<usize> is <<start, end>>, end excluded
CHECKSUM_RANGE == <<160, 189>>

GAME_TITLE_RANGE == <<160, 172>>

GAME_CODE_RANGE == <<172, 176>>

MAKER_CODE_RANGE == <<176, 178>>

RangeLen(r) == r[2] - r[1]

\* bytes[i] is in bounds
InBounds(b, i) == i < Len(b)

\* &bytes[r] is in bounds
RangeInBounds(b, r) == r[1] <= r[2] /\ r[2] <= Len(b)

At(b, i) == b[i + 1]

Slice(b, r) == SubSeq(b, r[1] + 1, r[2])

\* a subtraction that saturates at zero instead of wrapping
WrappingSub_Saturating(a, b) == IF a >= b THEN a - b ELSE 0

\* u8::wrapping_sub
WrappingSub(a, b) == (a + 256 - b) % 256

RECURSIVE ChecksumLoop(_, _)
ChecksumLoop(chk, b) ==
    IF b = <<>> THEN chk
    ELSE ChecksumLoop(WrappingSub(chk, Head(b)), Tail(b))

compute_checksum(b) ==
    IF DebugAssertions /\ Len(b) # RangeLen(CHECKSUM_RANGE)
    THEN Panic("assertion failed: bytes.len() == CHECKSUM_RANGE.len()")
    ELSE Ok(WrappingSub(ChecksumLoop(0, b), 25))

\* Ascii::<N>::from_bytes: the N bytes of the slice
AsciiFromBytes(b) == b

\* the outcome of CartridgeHeader::parse and the warnings it logs
parse(b) ==
    IF Len(b) < HEADER_MIN_SIZE
    THEN [ret |-> Err("IncompleteHeaderError"), log |-> <<>>]
    ELSE IF ~InBounds(b, CHECKSUM_OFFSET) \/ ~RangeInBounds(b, CHECKSUM_RANGE)
         THEN [ret |-> Panic("index out of bounds"), log |-> <<>>]
    ELSE LET checksum == At(b, CHECKSUM_OFFSET)
             computed_checksum == compute_checksum(Slice(b, CHECKSUM_RANGE))
         IN  IF computed_checksum.kind = "panic"
             THEN [ret |-> computed_checksum, log |-> <<>>]
             ELSE LET warned ==
                          IF checksum # computed_checksum.val
                          THEN <<[msg |-> "invalid header checksum",
                                  computed |-> computed_checksum.val,
                                  expected |-> checksum]>>
                          ELSE <<>>
                  IN  IF \/ ~RangeInBounds(b, GAME_TITLE_RANGE)
                         \/ ~RangeInBounds(b, GAME_CODE_RANGE)
                         \/ ~RangeInBounds(b, MAKER_CODE_RANGE)
                         \/ ~InBounds(b, SOFTWARE_VERSION_OFFSET)
                      THEN [ret |-> Panic("index out of bounds"), log |-> warned]
                      ELSE [ret |-> Ok([game_title |-> AsciiFromBytes(Slice(b, GAME_TITLE_RANGE)),
                                        game_code |-> AsciiFromBytes(Slice(b, GAME_CODE_RANGE)),
                                        maker_code |-> AsciiFromBytes(Slice(b, MAKER_CODE_RANGE)),
                                        software_version |-> At(b, SOFTWARE_VERSION_OFFSET),
                                        checksum |-> checksum]),
                            log |-> warned]

\* Cartridge::load_from_bytes: `?` turns the header error into LoadError
load_from_bytes(rom) ==
    LET header == parse(rom)
    IN  IF header.ret.kind = "ok"
        THEN [ret |-> Ok([header |-> header.ret.val, rom |-> rom]), log |-> header.log]
        ELSE IF header.ret.kind = "err"
        THEN [ret |-> Err([HeaderError |-> header.ret.err]), log |-> header.log]
        ELSE header

(***************************************************************************)
(* Sampled ROMs.                                                           *)
(***************************************************************************)
\* ROM lengths are taken within ExtraLen of 0 and of HEADER_MIN_SIZE
ExtraLen == 1
\* ROM bytes are taken within EdgeBytes of 0 and of 256
EdgeBytes == 2

Lens == {l \in 0 .. (HEADER_MIN_SIZE + ExtraLen) :
            l <= ExtraLen \/ l >= HEADER_MIN_SIZE - ExtraLen - 1}

SampleBytes == {b \in 0 .. 255 : b < EdgeBytes \/ b >= 256 - EdgeBytes \/ b = 150}

RECURSIVE SumBytes(_)
SumBytes(b) == IF b = <<>> THEN 0 ELSE Head(b) + SumBytes(Tail(b))

\* the complement check a ROM tool stores at 0xBD: chk = -(sum of the bytes
\* 0xA0..=0xBC) - 0x19, truncated to eight bits
Complement(b) == (256 * (Len(b) + 1) - SumBytes(b) - 25) % 256

\* byte i is f + step * i (mod 256), but for the software version ver and the
\* stored checksum chk
Rom(len, f, step, ver, chk) ==
    [i \in 1 .. len |->
        IF i - 1 = SOFTWARE_VERSION_OFFSET THEN ver
        ELSE IF i - 1 = CHECKSUM_OFFSET THEN chk
        ELSE (f + step * (i - 1)) % 256]

\* the stored checksums tried for a ROM: the sampled bytes and, when the ROM
\* holds the whole checksum range, the complement check of that range
Checksums(len, f, step, ver) ==
    SampleBytes \cup
        (IF len >= CHECKSUM_RANGE[2]
         THEN {Complement(Slice(Rom(len, f, step, ver, 0), CHECKSUM_RANGE))}
         ELSE {})

Roms == UNION {{Rom(len, f, step, ver, chk) : chk \in Checksums(len, f, step, ver)} :
                  len \in Lens, f \in SampleBytes, step \in {0, 1}, ver \in SampleBytes}

InitCart == InitBit

CartFrame == UNCHANGED <<build, NBITS, self, BIT, START, END, value, state, raw, cs>>

CallParse ==
    /\ pc = "idle"
    /\ \E b \in Roms : bytes' = b /\ ret' = parse(b).ret /\ log' = log \o parse(b).log
    /\ op' = "parse" /\ pc' = "done"
    /\ CartFrame

CallLoadFromBytes ==
    /\ pc = "idle"
    /\ \E b \in Roms :
          /\ bytes' = b
          /\ ret' = load_from_bytes(b).ret
          /\ log' = log \o load_from_bytes(b).log
    /\ op' = "load_from_bytes" /\ pc' = "done"
    /\ CartFrame

\* compute_checksum(&ROM[CHECKSUM_RANGE]), as tests::checksum calls it
CallComputeChecksum ==
    /\ pc = "idle"
    /\ \E b \in {r \in Roms : RangeInBounds(r, CHECKSUM_RANGE)} :
          /\ bytes' = Slice(b, CHECKSUM_RANGE)
          /\ ret' = compute_checksum(Slice(b, CHECKSUM_RANGE))
    /\ op' = "compute_checksum" /\ pc' = "done"
    /\ UNCHANGED log
    /\ CartFrame

NextCart == CallParse \/ CallLoadFromBytes \/ CallComputeChecksum

SpecCart == InitCart /\ [][NextCart]_vars

(***************************************************************************)
(* Properties.                                                             *)
(***************************************************************************)
\* v has no bit set at position n or above
Fits(v, n) == v \subseteq 0 .. (n - 1)

\* the bits of x in [s, e), right-aligned
Field(x, s, e) == {i \in 0 .. (e - s - 1) : i + s \in x}

\* r and x agree on every bit outside [s, e)
SameOutside(w, r, x, s, e) == \A i \in MAX(w) \ (s .. (e - 1)) : (i \in r) <=> (i \in x)

\* C1: for every width, value x and range START < END <= NBITS (END = NBITS
\* included), set_bits(START, END, bits(START, END) of x) on x returns x.
C1_RoundTrip ==
    (pc = "done" /\ op = "round_trip") => (ret.kind = "ok" /\ ret.val = self)

\* C2: Psr::mode returns the CpuMode whose code is in bits 0-4 when that code
\* is one of the seven valid ones, and panics with "invalid cpu mode" for each
\* of the other 25 patterns; bits 5-31 play no part.
C2_ModeDecoding ==
    (pc = "done" /\ op = "mode") =>
        LET p == Val(raw \cap (0 .. 4))
        IN  IF p \in {16, 17, 18, 19, 23, 27, 31}
            THEN /\ ret.kind = "ok"
                 /\ ret.val = CASE p = 16 -> "User"
                                [] p = 17 -> "Fiq"
                                [] p = 18 -> "Irq"
                                [] p = 19 -> "Supervisor"
                                [] p = 23 -> "Abort"
                                [] p = 27 -> "Undefined"
                                [] p = 31 -> "System"
            ELSE ret.kind = "panic" /\ ret.msg = "invalid cpu mode"

\* an invalid mode pattern (0b01111) under set flag and reserved bits panics
C2_Witness ==
    /\ pc = "done" /\ op = "mode"
    /\ raw \cap (0 .. 4) = {0, 1, 2, 3}
    /\ 31 \in raw /\ 8 \in raw
    /\ ret.kind = "panic"

\* C3: with debug assertions, set_bits flags (panics on) every value that has
\* a bit set at position END - START or above, for every START < END <= NBITS.
C3_OverwideValueFlagged ==
    (pc = "done" /\ op = "set_bits" /\ DebugAssertions /\ ~Fits(value, END - START))
        => ret.kind = "panic"

\* C4: bit, set_bit, bits and set_bits return a result, without assertion
\* failure or shift overflow, for every index BIT < NBITS, every range
\* START < END <= NBITS and every value that fits in END - START bits, in
\* debug and in release builds.
C4_TotalWithinPreconditions ==
    /\ (pc = "done" /\ op \in {"bit", "set_bit"} /\ BIT < NBITS) => ret.kind = "ok"
    /\ (pc = "done" /\ op = "bits" /\ START < END /\ END <= NBITS) => ret.kind = "ok"
    /\ (pc = "done" /\ op = "set_bits" /\ START < END /\ END <= NBITS
            /\ Fits(value, END - START)) => ret.kind = "ok"

\* C5: bits(START, END) of x is floor(x / 2^START) mod 2^(END - START): bit i
\* of the result is bit START + i of x below END - START and zero above.  The
\* number is compared where it fits TLC's integers (u8, u16).
C5_BitsValue ==
    (pc = "done" /\ op = "bits") =>
        /\ ret.kind = "ok"
        /\ ret.val = Field(self, START, END)
        /\ Fits(ret.val, END - START)
        /\ NBITS <= 16 =>
              Val(ret.val) = (Val(self) \div Pow2(START)) % Pow2(END - START)

\* a field that ends below the top bit and starts above bit 0, with bits of x
\* on both sides of it
C5_Witness ==
    /\ pc = "done" /\ op = "bits" /\ NBITS = 16
    /\ START > 0 /\ END < NBITS
    /\ 0 \in self /\ (NBITS - 1) \in self
    /\ ret.kind = "ok" /\ ret.val # Zero

\* C6: for every range START < END <= NBITS and value v that fits in
\* END - START bits, set_bits returns r with bits(START, END) of r = v and
\* every bit of r outside [START, END) equal to that bit of x.
C6_SetBitsFrame ==
    (pc = "done" /\ op = "set_bits" /\ Fits(value, END - START)) =>
        /\ ret.kind = "ok"
        /\ bits(NBITS, ret.val, START, END) = Ok(value)
        /\ SameOutside(NBITS, ret.val, self, START, END)

\* C7: state() is Thumb iff bit 5, fiq_disabled() is bit 6, irq_disabled() bit
\* 7, overflow() bit 28, carry() bit 29, zero() bit 30, sign() bit 31; none of
\* them fails, whatever the mode bits; 0x00000013 is Supervisor, ARM, both
\* interrupts enabled, flags clear.
C7_Accessors ==
    /\ (pc = "done" /\ op = "state") =>
          (ret.kind = "ok" /\ ret.val = IF 5 \in raw THEN "Thumb" ELSE "Arm")
    /\ (pc = "done" /\ op = "fiq_disabled") => (ret.kind = "ok" /\ ret.val = (6 \in raw))
    /\ (pc = "done" /\ op = "irq_disabled") => (ret.kind = "ok" /\ ret.val = (7 \in raw))
    /\ (pc = "done" /\ op = "overflow") => (ret.kind = "ok" /\ ret.val = (28 \in raw))
    /\ (pc = "done" /\ op = "carry") => (ret.kind = "ok" /\ ret.val = (29 \in raw))
    /\ (pc = "done" /\ op = "zero") => (ret.kind = "ok" /\ ret.val = (30 \in raw))
    /\ (pc = "done" /\ op = "sign") => (ret.kind = "ok" /\ ret.val = (31 \in raw))
    /\ (pc = "done" /\ raw = {0, 1, 4}) =>
          /\ ret.kind = "ok"
          /\ op = "mode" => ret.val = "Supervisor"
          /\ op = "state" => ret.val = "Arm"
          /\ op \in {"fiq_disabled", "irq_disabled", "overflow", "carry", "zero", "sign"}
                => ret.val = FALSE

\* the carry flag read from a register whose mode bits are no valid mode and
\* whose other flags are clear
C7_Witness ==
    /\ pc = "done" /\ op = "carry"
    /\ raw \cap (0 .. 4) = {} /\ raw \cap (28 .. 31) = {29}
    /\ ret.kind = "ok" /\ ret.val = TRUE

\* C8: CpuState::from(true) = Thumb, CpuState::from(false) = Arm, the two
\* conversions are inverse to each other, and the boolean as an integer is
\* the enum's discriminant (Arm = 0, Thumb = 1).
C8_CpuStateBool ==
    /\ (pc = "done" /\ op = "CpuState::from") =>
          /\ ret.kind = "ok"
          /\ state => ret.val = "Thumb"
          /\ ~state => ret.val = "Arm"
          /\ BoolFromCpuState(ret.val) = state
          /\ CpuStateValue(ret.val) = BoolAsU8(state)
    /\ (pc = "done" /\ op = "bool::from") =>
          /\ ret.kind = "ok"
          /\ CpuStateFromBool(ret.val) = cs
          /\ BoolAsU8(ret.val) = CpuStateValue(cs)

C8_Witness ==
    /\ pc = "done" /\ op = "CpuState::from" /\ state = TRUE
    /\ ret.kind = "ok" /\ ret.val = "Thumb"

\* the header a call returned: parse returns it, load_from_bytes wraps it
ReturnedHeader == IF op = "load_from_bytes" THEN ret.val.header ELSE ret.val

\* C9: parse and load_from_bytes never panic; they return the incomplete-header
\* error iff the input is shorter than 192 bytes, and otherwise Ok with
\* software_version = byte 0xBC and checksum = byte 0xBD, a checksum mismatch
\* being logged and nothing more.
C9_ParseNeverPanics ==
    (pc = "done" /\ op \in {"parse", "load_from_bytes"}) =>
        /\ ret.kind # "panic"
        /\ ret.kind = "err" <=> Len(bytes) < 192
        /\ Len(bytes) >= 192 =>
              /\ ret.kind = "ok"
              /\ ReturnedHeader.software_version = bytes[188 + 1]
              /\ ReturnedHeader.checksum = bytes[189 + 1]
              /\ (log # <<>>) <=> (bytes[189 + 1] # Complement(SubSeq(bytes, 161, 189)))

\* a header of exactly 192 bytes with a wrong stored checksum is parsed
C9_Witness ==
    /\ pc = "done" /\ op = "parse" /\ Len(bytes) = 192
    /\ log # <<>>
    /\ ret.kind = "ok" /\ ret.val.checksum = bytes[189 + 1]

\* C10: compute_checksum of the 29 bytes 0xA0..=0xBC is (0 - sum - 0x19) mod
\* 256 and never faults; for a header whose stored byte at 0xBD is that value,
\* parse returns it as the checksum field and logs nothing.
C10_Checksum ==
    /\ (pc = "done" /\ op = "compute_checksum") =>
          /\ ret.kind = "ok"
          /\ ret.val = (256 * 30 - SumBytes(bytes) - 25) % 256
    /\ (pc = "done" /\ op = "parse" /\ Len(bytes) >= 192
            /\ bytes[189 + 1] = (256 * 30 - SumBytes(SubSeq(bytes, 161, 189)) - 25) % 256) =>
          /\ ret.kind = "ok"
          /\ compute_checksum(SubSeq(bytes, 161, 189)) = Ok(ret.val.checksum)
          /\ log = <<>>

\* a checksum whose running value wraps below zero more than once
C10_Witness ==
    /\ pc = "done" /\ op = "compute_checksum"
    /\ SumBytes(bytes) > 512
    /\ ret.kind = "ok"

====
